---- MODULE Spec2Model ----
(***************************************************************************)
(* Model of the SyMPC secret-sharing engine: the orchestrator MPCTensor    *)
(* (src/src/sympc/tensor/mpc_tensor.py) and the trusted dealer             *)
(* CryptoPrimitiveProvider (src/src/sympc/store/crypto_primitive_provider  *)
(* .py).  Share payloads are tensors of ring elements, modelled as         *)
(* sequences (one-dimensional shapes); all share arithmetic wraps modulo   *)
(* 2^RingWidth.  Real numbers are represented in half-units of the         *)
(* encoder resolution: the integer q stands for the real q / (2 * Scale).  *)
(***************************************************************************)
EXTENDS Integers, Sequences, FiniteSets, TLC

\* ------------------------------------------------------------------ bounds
RingWidth == 3
MaxParties == 3
MaxNumel == 2
MaxSecret == 5
MaxPower == 2
EncoderPrecision == 1
EncoderBase == 2

VARIABLES
    nr_parties,    \* session.nr_parties
    call,          \* the API call made last, with its inputs
    result,        \* what that call returned
    x, y,          \* two distributed tensors held by the orchestrator
    crypto_store,  \* per party, per operation tag: the queue of primitives
    _ops_list,     \* CryptoPrimitiveProvider._ops_list
    _LOGGING,      \* CryptoPrimitiveProvider._LOGGING
    generated,     \* number of primitive batches generated so far
    spdz_log,      \* history: one entry per SPDZ round the parties executed
    log_file,      \* contents of primitive_log.json
    held,          \* per party: the share object it holds for x
    fetch,         \* the reconstruction in flight, if any
    history        \* what the completed reconstructions returned, in order

provider == <<crypto_store, _ops_list, _LOGGING, generated, spdz_log>>
remote == <<held, fetch, history>>
vars == <<nr_parties, call, result, x, y, crypto_store, _ops_list, _LOGGING,
          generated, spdz_log, log_file, held, fetch, history>>

\* ------------------------------------------------- ring and encoder
RECURSIVE Pow(_, _)
Pow(b, e) == IF e = 0 THEN 1 ELSE b * Pow(b, e - 1)

RingSize == Pow(2, RingWidth)
Ring == 0..(RingSize - 1)
Scale == Pow(EncoderBase, EncoderPrecision)

Wrap(v) == v % RingSize
Signed(v) == IF v >= RingSize \div 2 THEN v - RingSize ELSE v

\* round(), ties to the even neighbour, of the real q / 2
RoundHalf(q) ==
    IF q % 2 = 0 THEN q \div 2
    ELSE IF ((q - 1) \div 2) % 2 = 0 THEN (q - 1) \div 2 ELSE (q + 1) \div 2

\* FixedPointEncoder.encode: round(x * base^precision) cast into the ring
encode(q) == Wrap(RoundHalf(q))
\* FixedPointEncoder.decode: signed(v) / base^precision, in half-units
decode(v) == 2 * Signed(v)

Reals == (-MaxSecret)..MaxSecret

\* ------------------------------------------------- tensors
Shapes == 1..MaxNumel
TensorsOf(S, numel) == [1..numel -> S]
TAdd(a, b) == [k \in 1..Len(a) |-> Wrap(a[k] + b[k])]
TSub(a, b) == [k \in 1..Len(a) |-> Wrap(a[k] - b[k])]
TZero(numel) == [k \in 1..numel |-> 0]

RECURSIVE TSum(_, _)
\* sum(shares): ring sum of the first n tensors of a list
TSum(shares, n) ==
    IF n = 1 THEN shares[1] ELSE TAdd(TSum(shares, n - 1), shares[n])

\* the only element of a singleton set; { e(v) : v \in {d} } evaluates d once
Only(S) == CHOOSE v \in S : TRUE

Idle == [op |-> "idle"]
NoResult == [kind |-> "none"]

PartyCounts == 2..MaxParties
NoneVal == [none |-> TRUE]
NoError == "no error"

\* operation tags with a registered generator (_func_providers)
MulOps == {"mul", "matmul", "conv2d"}
BeaverTag(op_str) == "beaver_" \o op_str
_func_providers == {BeaverTag(op) : op \in MulOps}
Tags == _func_providers \cup {"unregistered"}
EmptyStore == [i \in 1..nr_parties |-> [t \in _func_providers |-> <<>>]]
EmptyLog == [t \in _func_providers |-> <<>>]
NoTensor == [kind |-> "none"]

\* ------------------------------------------------- sharing scheme
\* a plausible slip: the last share subtracts the first random share
generate_shares_lastidx(secret, n, random_shares) ==
    [i \in 1..n |->
        IF i = 1 THEN random_shares[1]
        ELSE IF i < n THEN TSub(random_shares[i], random_shares[i - 1])
        ELSE TSub(secret, random_shares[1])]

\* a plausible slip: a middle share subtracts in the other direction
generate_shares_flipped(secret, n, random_shares) ==
    [i \in 1..n |->
        IF i = 1 THEN random_shares[1]
        ELSE IF i < n THEN TSub(random_shares[i - 1], random_shares[i])
        ELSE TSub(secret, random_shares[i - 1])]

\* MPCTensor.generate_shares, the loop over range(nr_parties); secret is the
\* encoded ShareTensor, random_shares the nr_parties - 1 tensors drawn
generate_shares(secret, n, random_shares) ==
    [i \in 1..n |->
        IF i = 1 THEN random_shares[1]
        ELSE IF i < n THEN TSub(random_shares[i], random_shares[i - 1])
        ELSE TSub(secret, random_shares[i - 1])]

\* output of a pseudo-random generator seeded with seed, for a shape
Prg(seed, numel) == [k \in 1..numel |-> Wrap(seed * (2 * k - 1) + (k - 1))]

\* session.przs_generators after setup: party i holds the generator it shares
\* with the previous party and the one it shares with the next party
przs_generators(seeds, n) ==
    [i \in 1..n |-> <<seeds[IF i = 1 THEN n ELSE i - 1], seeds[i]>>]

\* Session.przs_generate_random_share, run at one party: g_next - g_prev
przs_generate_random_share(shape, generators) ==
    TSub(Prg(generators[2], shape), Prg(generators[1], shape))

\* a plausible slip: every party is handed the first party's generators
generate_przs_nozip(shape, n, gens) ==
    [i \in 1..n |-> przs_generate_random_share(shape, gens[1])]

\* MPCTensor.generate_przs: zip(session_ptrs, przs_generators)
generate_przs(shape, n, gens) ==
    [i \in 1..n |-> przs_generate_random_share(shape, gens[i])]

GenerateShares ==
    /\ call.op = "idle"
    /\ \E q \in Reals, rs \in [1..(nr_parties - 1) -> TensorsOf(Ring, 1)] :
        /\ call' = [op |-> "generate_shares", secret |-> q, random_shares |-> rs]
        /\ result' = [kind |-> "shares",
                      shares |-> generate_shares(<<encode(q)>>, nr_parties, rs)]
    /\ UNCHANGED <<nr_parties, x, y, provider, log_file, remote>>

GeneratePrzs ==
    /\ call.op = "idle"
    /\ \E shape \in Shapes, seeds \in [1..nr_parties -> Ring] :
        /\ call' = [op |-> "generate_przs", shape |-> shape, seeds |-> seeds]
        /\ result' = [kind |-> "shares",
                      shares |-> generate_przs(shape, nr_parties,
                                     przs_generators(seeds, nr_parties))]
    /\ UNCHANGED <<nr_parties, x, y, provider, log_file, remote>>

InitProvider ==
    /\ crypto_store = EmptyStore
    /\ _ops_list = EmptyLog
    /\ _LOGGING = FALSE
    /\ generated = 0
    /\ spdz_log = <<>>
    /\ log_file = NoneVal

\* nothing sent to the parties yet, no reconstruction under way
NoShare == <<>>
NotHeld == [tensor |-> NoShare, requested |-> FALSE]
NoFetch == [active |-> FALSE]
InitRemote ==
    /\ held = [i \in 1..nr_parties |-> NotHeld]
    /\ fetch = NoFetch
    /\ history = <<>>

InitSharing ==
    /\ nr_parties \in PartyCounts
    /\ call = Idle
    /\ result = NoResult
    /\ x = NoTensor
    /\ y = NoTensor
    /\ InitProvider
    /\ InitRemote

NextSharing == GenerateShares \/ GeneratePrzs

SpecSharing == InitSharing /\ [][NextSharing]_vars

\* ------------------------------------------------- primitive provider
\* the provider's process-wide state and the parties' stores, as one value
ProviderState == [store |-> crypto_store, ops_list |-> _ops_list,
                  logging |-> _LOGGING, generated |-> generated,
                  events |-> spdz_log]

SetProvider(st) ==
    /\ crypto_store' = st.store
    /\ _ops_list' = st.ops_list
    /\ _LOGGING' = st.logging
    /\ generated' = st.generated
    /\ spdz_log' = st.events

\* CryptoStore.populate_store: the party's primitive joins the tag's queue
populate_store(party_store, op_str, primitive) ==
    [party_store EXCEPT ![op_str] = Append(@, primitive)]

RECURSIVE populate_zip(_, _, _, _, _)
\* the loop over zip(primitives, sessions), from position k on
populate_zip(op_str, items, sessions, k, store) ==
    IF k > Len(items) \/ k > Len(sessions) THEN store
    ELSE populate_zip(op_str, items, sessions, k + 1,
             [store EXCEPT ![sessions[k]] = populate_store(@, op_str, items[k])])

\* a plausible slip: the loop hands every primitive of the batch to each party
_transfer_twice(op_str, primitives, sessions, p_kwargs, store) ==
    IF ~primitives.is_list THEN [error |-> "ValueError: not a list", store |-> store]
    ELSE IF Len(primitives.items) # Len(sessions)
    THEN [error |-> "ValueError: count mismatch", store |-> store]
    ELSE [error |-> NoError,
          store |-> populate_zip(op_str, primitives.items, sessions, 1,
                        populate_zip(op_str, primitives.items, sessions, 1, store))]

\* a plausible slip: the count is compared after the stores were populated
_transfer_check_last(op_str, primitives, sessions, p_kwargs, store) ==
    IF ~primitives.is_list THEN [error |-> "ValueError: not a list", store |-> store]
    ELSE IF Len(primitives.items) # Len(sessions)
    THEN [error |-> "ValueError: count mismatch",
          store |-> populate_zip(op_str, primitives.items, sessions, 1, store)]
    ELSE [error |-> NoError,
          store |-> populate_zip(op_str, primitives.items, sessions, 1, store)]

\* CryptoPrimitiveProvider._transfer_primitives_to_parties
_transfer_primitives_to_parties(op_str, primitives, sessions, p_kwargs, store) ==
    IF ~primitives.is_list THEN [error |-> "ValueError: not a list", store |-> store]
    ELSE IF Len(primitives.items) # Len(sessions)
    THEN [error |-> "ValueError: count mismatch", store |-> store]
    ELSE [error |-> NoError,
          store |-> populate_zip(op_str, primitives.items, sessions, 1, store)]

\* a plausible slip: the primitives are transferred whatever p_kwargs is
generate_primitives_transfer_always(op_str, sessions, primitives, p_kwargs, st) ==
    IF op_str \notin _func_providers
    THEN [error |-> "ValueError: not registered", st |-> st]
    ELSE LET made == [st EXCEPT !.generated = @ + 1]
             logged == IF made.logging
                       THEN [made EXCEPT !.ops_list[op_str] = Append(@, p_kwargs)]
                       ELSE made
             t == _transfer_primitives_to_parties(
                      op_str, primitives, sessions, p_kwargs, logged.store)
         IN [error |-> t.error, primitives |-> primitives,
             st |-> [logged EXCEPT !.store = t.store]]

\* a plausible slip: p_kwargs is appended to the log whatever the flag says
generate_primitives_log_always(op_str, sessions, primitives, p_kwargs, st) ==
    IF op_str \notin _func_providers
    THEN [error |-> "ValueError: not registered", st |-> st]
    ELSE LET made == [st EXCEPT !.generated = @ + 1]
             logged == [made EXCEPT !.ops_list[op_str] = Append(@, p_kwargs)]
         IN IF p_kwargs # NoneVal
            THEN LET t == _transfer_primitives_to_parties(
                              op_str, primitives, sessions, p_kwargs, logged.store)
                 IN [error |-> t.error, primitives |-> primitives,
                     st |-> [logged EXCEPT !.store = t.store]]
            ELSE [error |-> NoError, primitives |-> primitives, st |-> logged]

\* CryptoPrimitiveProvider.generate_primitives; primitives is what the
\* registered generator returns for g_kwargs
generate_primitives(op_str, sessions, primitives, p_kwargs, st) ==
    IF op_str \notin _func_providers
    THEN [error |-> "ValueError: not registered", st |-> st]
    ELSE LET made == [st EXCEPT !.generated = @ + 1]
             logged == IF made.logging
                       THEN [made EXCEPT !.ops_list[op_str] = Append(@, p_kwargs)]
                       ELSE made
         IN IF p_kwargs # NoneVal
            THEN LET t == _transfer_primitives_to_parties(
                              op_str, primitives, sessions, p_kwargs, logged.store)
                 IN [error |-> t.error, primitives |-> primitives,
                     st |-> [logged EXCEPT !.store = t.store]]
            ELSE [error |-> NoError, primitives |-> primitives, st |-> logged]

\* ------------------------------------------------- shapes
Shape(dims) == [dims |-> dims]
Max(a, b) == IF a >= b THEN a ELSE b
PadLeft(a, n) == [k \in 1..n |-> IF k <= n - Len(a) THEN 1 ELSE a[k - (n - Len(a))]]
BroadcastOk(a, b) ==
    LET n == Max(Len(a), Len(b)) IN
    \A k \in 1..n : \/ PadLeft(a, n)[k] = PadLeft(b, n)[k]
                    \/ PadLeft(a, n)[k] = 1
                    \/ PadLeft(b, n)[k] = 1
Broadcast(a, b) ==
    LET n == Max(Len(a), Len(b)) IN
    [k \in 1..n |-> IF PadLeft(a, n)[k] = 1 THEN PadLeft(b, n)[k] ELSE PadLeft(a, n)[k]]

ShapeError == [error |-> "RuntimeError: shapes do not match"]
ShapeOk(dims) == [error |-> NoError, shape |-> Shape(dims)]

\* shape of torch's matmul on empty tensors of shapes a and b
matmul_shape(a, b) ==
    IF Len(a) = 0 \/ Len(b) = 0 THEN ShapeError
    ELSE LET a2 == IF Len(a) = 1 THEN <<1>> \o a ELSE a
             b2 == IF Len(b) = 1 THEN b \o <<1>> ELSE b
             ba == SubSeq(a2, 1, Len(a2) - 2)
             bb == SubSeq(b2, 1, Len(b2) - 2)
             rows == IF Len(a) = 1 THEN <<>> ELSE <<a2[Len(a2) - 1]>>
             cols == IF Len(b) = 1 THEN <<>> ELSE <<b2[Len(b2)]>>
         IN IF a2[Len(a2)] # b2[Len(b2) - 1] \/ ~BroadcastOk(ba, bb) THEN ShapeError
            ELSE ShapeOk(Broadcast(ba, bb) \o rows \o cols)

\* shape of torch.conv2d (stride 1, no padding) on empty tensors
conv2d_shape(a, b) ==
    IF Len(a) # 4 \/ Len(b) # 4 THEN ShapeError
    ELSE IF a[2] # b[2] \/ a[3] < b[3] \/ a[4] < b[4] THEN ShapeError
    ELSE ShapeOk(<<a[1], b[1], a[3] - b[3] + 1, a[4] - b[4] + 1>>)

\* MPCTensor._get_shape
_get_shape(op_str, x_shape, y_shape) ==
    IF x_shape = NoneVal \/ y_shape = NoneVal
    THEN [error |-> "ValueError: Shapes should not be None"]
    ELSE IF op_str = "conv2d" THEN conv2d_shape(x_shape.dims, y_shape.dims)
    ELSE IF op_str = "matmul" THEN matmul_shape(x_shape.dims, y_shape.dims)
    ELSE IF BroadcastOk(x_shape.dims, y_shape.dims)
         THEN ShapeOk(Broadcast(x_shape.dims, y_shape.dims))
         ELSE ShapeError

\* ------------------------------------------------- values
Error(e) == [kind |-> "error", error |-> e]
\* a distributed tensor; divided_by lists the public divisors that the
\* public-divide procedure (an external collaborator) was asked to apply
MPCTensor(shares, shape, session, divided_by) ==
    [kind |-> "mpc", share_ptrs |-> shares, shape |-> shape,
     session |-> session, divided_by |-> divided_by]
\* a public number (float or int) or a public torch.Tensor
Public(q, is_number, shape) ==
    [kind |-> "public", value |-> q, is_number |-> is_number, shape |-> shape]
PublicInt(k) == Public(2 * Scale * k, TRUE, NoneVal)

TMul(a, b) == [k \in 1..Len(a) |-> Wrap(a[k] * b[k])]
\* floor division of the signed payload by a positive integer
TFloorDiv(a, d) == [k \in 1..Len(a) |-> Wrap(Signed(a[k]) \div d)]

\* ShareTensor operators between two shares (single-element payloads:
\* mul, matmul and conv2d all multiply the two elements)
share_op(op_str, a, b) ==
    IF op_str = "add" THEN TAdd(a, b)
    ELSE IF op_str = "sub" THEN TSub(a, b)
    ELSE TMul(a, b)
\* ShareTensor operators with a public operand: the operand is encoded first
share_public_op(op_str, a, q) == share_op(op_str, a, <<encode(q)>>)

\* ------------------------------------------------- SPDZ multiplication
\* the generator registered for a Beaver tag: additive shares of a, of b and
\* of c = a * b, one primitive per party; id numbers the batch
beaver_generator(a, b, ra, rb, rc, n, id) ==
    Only({[is_list |-> TRUE,
           items |-> [i \in 1..n |->
                        [id |-> id, a |-> a_sh[i], b |-> b_sh[i], c |-> c_sh[i]]]] :
          a_sh \in {generate_shares(<<a>>, n, ra)},
          b_sh \in {generate_shares(<<b>>, n, rb)},
          c_sh \in {generate_shares(<<Wrap(a * b)>>, n, rc)}})

\* one party's combination of the opened eps = x - a and delta = y - b with
\* its triple shares; the master (rank 0, index 1) adds eps * delta
mul_combine(rank, prim, eps, delta) ==
    LET local == TAdd(TAdd(prim.c, TMul(eps, prim.b)), TMul(prim.a, delta))
    IN IF rank = 1 THEN TAdd(local, TMul(eps, delta)) ELSE local

\* spdz.mul_parties: the combination, rescaled locally in a 2-party session
mul_parties(rank, n, prim, eps, delta) ==
    IF n = 2 THEN TFloorDiv(mul_combine(rank, prim, eps, delta), Scale)
    ELSE mul_combine(rank, prim, eps, delta)

\* the parties' half of a multiplication: every party takes the primitive at
\* the head of its queue for the tag; an empty queue is fatal
spdz_round(xt, yt, op_str, n, st) ==
    LET tag == BeaverTag(op_str)
        has(i) == st.store[i][tag] # <<>>
        prim(i) == Head(st.store[i][tag])
        popped == [i \in 1..n |->
                     IF has(i) THEN [st.store[i] EXCEPT ![tag] = Tail(@)]
                     ELSE st.store[i]]
        ids == [i \in 1..n |-> IF has(i) THEN prim(i).id ELSE 0]
        event(ok, combined) ==
            [op |-> op_str, ok |-> ok, ids |-> ids, combined |-> combined,
             rescaled |-> ok /\ n = 2]
        after(ok, combined) ==
            [st EXCEPT !.store = popped, !.events = Append(@, event(ok, combined))]
    IN IF \A i \in 1..n : has(i)
       THEN Only({
          [result |-> MPCTensor([i \in 1..n |-> mul_parties(i, n, prim(i), eps, delta)],
                                NoneVal, xt.session, xt.divided_by \o yt.divided_by),
           st |-> after(TRUE, [i \in 1..n |-> mul_combine(i, prim(i), eps, delta)])] :
          eps \in {TSum([i \in 1..n |-> TSub(xt.share_ptrs[i], prim(i).a)], n)},
          delta \in {TSum([i \in 1..n |-> TSub(yt.share_ptrs[i], prim(i).b)], n)}})
       ELSE [result |-> Error("EmptyPrimitiveStore"), st |-> after(FALSE, <<>>)]

\* spdz.mul_master: a fresh batch for this shape and op is requested from the
\* provider, which places it in the parties' stores; then the parties' round;
\* last, the shape of the new tensor is inferred
mul_master(xt, yt, op_str, n, primitives, st) ==
    Only({
       IF g.error # NoError THEN [result |-> Error(g.error), st |-> g.st]
       ELSE Only({
          IF r.result.kind = "error" THEN r
          ELSE IF shp.error # NoError
          THEN [result |-> Error(shp.error), st |-> r.st]
          ELSE [result |-> [r.result EXCEPT !.shape = shp.shape], st |-> r.st] :
          r \in {spdz_round(xt, yt, op_str, n, g.st)},
          shp \in {_get_shape(op_str, xt.shape, yt.shape)}}) :
       g \in {generate_primitives(BeaverTag(op_str), [i \in 1..n |-> i],
                  primitives, [a_shape |-> xt.shape, b_shape |-> yt.shape], st)}})

\* spdz.public_divide, an external procedure: the divisor is recorded
public_divide(xt, q) == [xt EXCEPT !.divided_by = Append(@, q)]

\* ------------------------------------------------- orchestrator operators
\* MPCTensor.div
div(self, yv) ==
    IF yv.kind = "mpc" THEN Error("NotImplementedError")
    ELSE public_divide(self, yv.value)

\* a plausible slip: sub combines the shares with add
apply_private_op_addonly(self, yv, op_str, n, primitives, st) ==
    IF yv.session # self.session
    THEN [result |-> Error("ValueError: Need same session"), st |-> st]
    ELSE IF op_str \in MulOps
    THEN LET shp == _get_shape(op_str, self.shape, yv.shape)
         IN Only({
            IF m.result.kind = "error" THEN m
            ELSE IF shp.error # NoError
            THEN [result |-> Error(shp.error), st |-> m.st]
            ELSE [result |-> [m.result EXCEPT !.shape = shp.shape], st |-> m.st] :
            m \in {mul_master(self, yv, op_str, n, primitives, st)}})
    ELSE IF op_str \in {"sub", "add"}
    THEN [result |-> MPCTensor(
                        [i \in 1..Len(self.share_ptrs) |->
                            share_op("add", self.share_ptrs[i], yv.share_ptrs[i])],
                        self.shape, self.session, self.divided_by),
          st |-> st]
    ELSE [result |-> Error("UnboundLocalError"), st |-> st]

\* a plausible slip: the product is taken share by share, like add and sub,
\* instead of through the SPDZ protocol
apply_private_op_local(self, yv, op_str, n, primitives, st) ==
    IF yv.session # self.session
    THEN [result |-> Error("ValueError: Need same session"), st |-> st]
    ELSE [result |-> MPCTensor(
                        [i \in 1..Len(self.share_ptrs) |->
                            share_op(op_str, self.share_ptrs[i], yv.share_ptrs[i])],
                        self.shape, self.session, self.divided_by),
          st |-> st]

\* MPCTensor.__apply_private_op
apply_private_op(self, yv, op_str, n, primitives, st) ==
    IF yv.session # self.session
    THEN [result |-> Error("ValueError: Need same session"), st |-> st]
    ELSE IF op_str \in MulOps
    THEN LET shp == _get_shape(op_str, self.shape, yv.shape)
         IN Only({
            IF m.result.kind = "error" THEN m
            ELSE IF shp.error # NoError
            THEN [result |-> Error(shp.error), st |-> m.st]
            ELSE [result |-> [m.result EXCEPT !.shape = shp.shape], st |-> m.st] :
            m \in {mul_master(self, yv, op_str, n, primitives, st)}})
    ELSE IF op_str \in {"sub", "add"}
    THEN [result |-> MPCTensor(
                        [i \in 1..Len(self.share_ptrs) |->
                            share_op(op_str, self.share_ptrs[i], yv.share_ptrs[i])],
                        self.shape, self.session, self.divided_by),
          st |-> st]
    ELSE [result |-> Error("UnboundLocalError"), st |-> st]

\* a plausible slip: the operand's share list is updated in place (no copy)
apply_public_op_inplace(self, yv, op_str) ==
    IF op_str \in {"mul", "matmul"}
    THEN [self_ptrs |-> self.share_ptrs,
          result |-> MPCTensor(
                        [i \in 1..Len(self.share_ptrs) |->
                            share_public_op(op_str, self.share_ptrs[i], yv.value)],
                        NoneVal, self.session, self.divided_by)]
    ELSE IF op_str \in {"add", "sub"}
    THEN [self_ptrs |-> [self.share_ptrs EXCEPT
                            ![1] = share_public_op(op_str, @, yv.value)],
          result |-> MPCTensor(
                        [self.share_ptrs EXCEPT
                            ![1] = share_public_op(op_str, @, yv.value)],
                        NoneVal, self.session, self.divided_by)]
    ELSE [self_ptrs |-> self.share_ptrs,
          result |-> Error("ValueError: not supported")]

\* MPCTensor.__apply_public_op; self_ptrs is the operand's own share list
\* after the call
apply_public_op(self, yv, op_str) ==
    IF op_str \in {"mul", "matmul"}
    THEN [self_ptrs |-> self.share_ptrs,
          result |-> MPCTensor(
                        [i \in 1..Len(self.share_ptrs) |->
                            share_public_op(op_str, self.share_ptrs[i], yv.value)],
                        NoneVal, self.session, self.divided_by)]
    ELSE IF op_str \in {"add", "sub"}
    THEN [self_ptrs |-> self.share_ptrs,
          result |-> MPCTensor(
                        [self.share_ptrs EXCEPT
                            ![1] = share_public_op(op_str, @, yv.value)],
                        NoneVal, self.session, self.divided_by)]
    ELSE [self_ptrs |-> self.share_ptrs,
          result |-> Error("ValueError: not supported")]

\* a plausible slip: the orchestrator rescales only after a public operand
rescale_public_only(res, op_str, is_private, n) ==
    IF op_str \in MulOps /\ ~is_private
    THEN div(res, PublicInt(Scale))
    ELSE res

\* the rescale at the end of MPCTensor.__apply_op
rescale(res, op_str, is_private, n) ==
    IF op_str \in MulOps /\ ~(is_private /\ n = 2)
    THEN div(res, PublicInt(Scale))
    ELSE res

\* MPCTensor.__apply_op
apply_op(self, yv, op_str, n, primitives, st) ==
    LET is_private == yv.kind = "mpc"
        y_shape == IF ~is_private /\ yv.is_number THEN Shape(<<1>>) ELSE yv.shape
        shp == _get_shape(op_str, self.shape, y_shape)
    IN Only({
       IF r.result.kind = "error" THEN r
       ELSE IF shp.error # NoError THEN [r EXCEPT !.result = Error(shp.error)]
       ELSE [r EXCEPT !.result =
                rescale([r.result EXCEPT !.shape = shp.shape], op_str, is_private, n)] :
       r \in {IF is_private
              THEN [self_ptrs |-> self.share_ptrs] @@
                   apply_private_op(self, yv, op_str, n, primitives, st)
              ELSE [st |-> st] @@ apply_public_op(self, yv, op_str)}})

\* MPCTensor.rmatmul: y @ self for a public y
rmatmul(self, yv) ==
    LET shares == [i \in 1..Len(self.share_ptrs) |->
                      share_op("matmul", <<encode(yv.value)>>, self.share_ptrs[i])]
        y_shape == IF yv.is_number THEN Shape(<<1>>) ELSE yv.shape
        shp == _get_shape("matmul", y_shape, self.shape)
    IN IF shp.error # NoError THEN Error(shp.error)
       ELSE div(MPCTensor(shares, shp.shape, self.session, self.divided_by),
                PublicInt(Scale))

\* what the Beaver generator draws for one batch: a, b and the random
\* shares that split a, b and c
TripleDraw(a, b, ra) ==
    [a |-> a, b |-> b, ra |-> ra,
     rb |-> [i \in 1..Len(ra) |-> <<Wrap(3 * ra[i][1] + 1)>>],
     rc |-> [i \in 1..Len(ra) |-> <<Wrap(ra[i][1] + 5)>>]]
TripleDraws(n) ==
    {TripleDraw(a, b, ra) :
        a \in {3, RingSize - 1}, b \in {2, RingSize - 3},
        ra \in [1..(n - 1) -> {<<1>>, <<RingSize - 2>>}]}
NoPrimitives == [is_list |-> TRUE, items |-> <<>>]
Batch(t, n, id) == beaver_generator(t.a, t.b, t.ra, t.rb, t.rc, n, id)

\* Python's a * b: an int on the left defers to MPCTensor.__rmul__ = mul
star(a, b, n, t, st) ==
    Only({apply_op(IF a.kind = "public" THEN b ELSE a,
                   IF a.kind = "public" THEN a ELSE b, "mul", n, prims, st) :
          prims \in {Batch(t, n, st.generated + 1)}})

RECURSIVE pow_loop(_, _, _, _, _, _)
\* the while loop of MPCTensor.pow
pow_loop(res, base, power, n, t, st) ==
    IF ~(power > 0) THEN [result |-> res, st |-> st]
    ELSE Only({
            IF m1.result.kind = "error" THEN [result |-> m1.result, st |-> m1.st]
            ELSE Only({
                IF m2.result.kind = "error" THEN [result |-> m2.result, st |-> m2.st]
                ELSE pow_loop(m1.result, m2.result, power \div 2, n, t, m2.st) :
                m2 \in {star(base, base, n, t, m1.st)}}) :
            m1 \in {IF power % 2 = 1 THEN star(res, base, n, t, st)
                    ELSE [result |-> res, st |-> st]}})

\* MPCTensor.pow
pow(self, power, n, t, st) ==
    IF power < 0 THEN [result |-> Error("RuntimeError: negative power"), st |-> st]
    ELSE pow_loop(PublicInt(1), self, power, n, t, st)

\* ------------------------------------------------- arithmetic: one call on x, y
XPool == {1, RingSize \div 2, RingSize - 1}
YPool == {3, RingSize - 2}
OperandShapes == {<<1>>, <<1, 1, 1, 1>>}
PublicValues == {Public(q, TRUE, NoneVal) : q \in {-3, 2 * Scale}}
                   \cup {Public(5, FALSE, Shape(<<1, 1>>))}

InitArith ==
    /\ nr_parties \in PartyCounts
    /\ call = Idle
    /\ result = NoResult
    /\ \E dims \in OperandShapes, xs \in [1..nr_parties -> XPool],
          ys \in [1..nr_parties -> YPool], sess \in {"s1", "s2"} :
        /\ x = MPCTensor([i \in 1..nr_parties |-> <<xs[i]>>], Shape(dims), "s1", <<>>)
        /\ y = MPCTensor([i \in 1..nr_parties |-> <<ys[i]>>], Shape(dims), sess, <<>>)
    /\ InitProvider
    /\ InitRemote

Returns(c, r) ==
    /\ call' = c
    /\ result' = r.result
    /\ SetProvider(r.st)
    /\ UNCHANGED <<nr_parties, y, log_file, remote>>

\* x.add(y), x.sub(y), x.mul(y), x.matmul(y), x.conv2d(y) for the tensor y
PrivateOp ==
    /\ call.op = "idle"
    /\ \E op_str \in {"add", "sub"} \cup MulOps, t \in TripleDraws(nr_parties) :
        /\ op_str \in {"add", "sub"} => t = Only({TripleDraw(3, 2, ra) :
                ra \in {[i \in 1..(nr_parties - 1) |-> <<1>>]}})
        /\ \E prims \in {Batch(t, nr_parties, generated + 1)} :
           \E r \in {apply_op(x, y, op_str, nr_parties, prims, ProviderState)} :
           /\ x' = [x EXCEPT !.share_ptrs = r.self_ptrs]
           /\ Returns([op |-> "apply_op", op_str |-> op_str, private |-> TRUE,
                       self |-> x, y |-> y, triple |-> t], r)

\* the same five operations with a public right operand
PublicOp ==
    /\ call.op = "idle"
    /\ \E op_str \in {"add", "sub"} \cup MulOps, yv \in PublicValues :
        \E r \in {apply_op(x, yv, op_str, nr_parties, NoPrimitives, ProviderState)} :
           /\ x' = [x EXCEPT !.share_ptrs = r.self_ptrs]
           /\ Returns([op |-> "apply_op", op_str |-> op_str, private |-> FALSE,
                       self |-> x, y |-> yv], r)

\* y @ x for a public y
RMatmul ==
    /\ call.op = "idle"
    /\ \E yv \in PublicValues :
        /\ x' = x
        /\ Returns([op |-> "rmatmul", op_str |-> "matmul", private |-> FALSE,
                    self |-> x, y |-> yv],
                   [result |-> rmatmul(x, yv), st |-> ProviderState])

\* x ** power
PowOp ==
    /\ call.op = "idle"
    /\ \E power \in (-1)..MaxPower :
        \E t \in {TripleDraw(3, RingSize - 3, ra) :
                      ra \in {[i \in 1..(nr_parties - 1) |-> <<RingSize - 2>>]}} :
        \E r \in {pow(x, power, nr_parties, t, ProviderState)} :
           /\ x' = x
           /\ Returns([op |-> "pow", power |-> power, self |-> x, triple |-> t], r)

NextArith == PrivateOp \/ PublicOp \/ RMatmul \/ PowOp

SpecArith == InitArith /\ [][NextArith]_vars

\* ------------------------------------------------- the dealer and the stores
MaxGenerated == 2
MaxRounds == 3

\* json.dumps of the log: the tags that were appended to, each with its list
\* of populate kwargs (None becomes null, a shape its list of dimensions)
JsonNull == [null |-> TRUE]
json_shape(s) == IF s = NoneVal THEN JsonNull ELSE s.dims
json_value(kw) ==
    IF kw = NoneVal THEN JsonNull
    ELSE [a_shape |-> json_shape(kw.a_shape), b_shape |-> json_shape(kw.b_shape)]
json_dumps(ops) ==
    [t \in {u \in DOMAIN ops : ops[u] # <<>>} |->
        [k \in 1..Len(ops[t]) |-> json_value(ops[t][k])]]

\* CryptoPrimitiveProvider.start_logging
start_logging(st) == [st EXCEPT !.logging = TRUE]

\* a plausible slip: the log is cleared only when it was written to the file
stop_logging_clear_with_file(generate_file, st, file) ==
    LET log_json == json_dumps(st.ops_list)
    IN [log_json |-> log_json,
        st |-> [st EXCEPT !.logging = FALSE,
                          !.ops_list = IF generate_file THEN EmptyLog ELSE @],
        file |-> IF generate_file THEN log_json ELSE file]

\* CryptoPrimitiveProvider.stop_logging
stop_logging(generate_file, st, file) ==
    LET log_json == json_dumps(st.ops_list)
    IN [log_json |-> log_json,
        st |-> [st EXCEPT !.logging = FALSE, !.ops_list = EmptyLog],
        file |-> IF generate_file THEN log_json ELSE file]

StoreDims == <<1, 1, 1, 1>>
StoreTriple ==
    TripleDraw(3, RingSize - 3, [i \in 1..(nr_parties - 1) |-> <<RingSize - 2>>])
Sessions == [i \in 1..nr_parties |-> i]
StoreOps == {"mul", "matmul"}
StoreKwargs == [a_shape |-> Shape(StoreDims), b_shape |-> Shape(StoreDims)]
\* what a registered generator may hand back: one primitive per party, one
\* primitive too few, one too many, or something that is not a list
GeneratorOutputs(id) ==
    LET full == Batch(StoreTriple, nr_parties, id)
    IN {full,
        [is_list |-> TRUE, items |-> SubSeq(full.items, 1, nr_parties - 1)],
        [is_list |-> TRUE, items |-> Append(full.items, full.items[1])],
        [is_list |-> FALSE, items |-> <<>>]}

InitStore ==
    /\ nr_parties \in PartyCounts
    /\ call = Idle
    /\ result = NoResult
    /\ x = MPCTensor([i \in 1..nr_parties |-> <<RingSize - i>>],
                     Shape(StoreDims), "s1", <<>>)
    /\ y = MPCTensor([i \in 1..nr_parties |-> <<3>>], Shape(StoreDims), "s1", <<>>)
    /\ InitProvider
    /\ InitRemote

\* x.mul(y), x.matmul(y), x.conv2d(y), one after another on the same session
StoreMul ==
    /\ generated < MaxGenerated
    /\ Len(spdz_log) < MaxRounds
    /\ \E op_str \in StoreOps :
       \E prims \in {Batch(StoreTriple, nr_parties, generated + 1)} :
       \E r \in {apply_op(x, y, op_str, nr_parties, prims, ProviderState)} :
          /\ x' = x
          /\ Returns([op |-> "apply_op", op_str |-> op_str, private |-> TRUE,
                      self |-> x, y |-> y, triple |-> StoreTriple], r)

\* the parties run their half of a multiplication on what their stores hold
\* (a consumer asking for a key that may already have been consumed)
MulParties ==
    /\ Len(spdz_log) < MaxRounds
    /\ \E op_str \in StoreOps :
       \E r \in {spdz_round(x, y, op_str, nr_parties, ProviderState)} :
          /\ x' = x
          /\ Returns([op |-> "mul_parties", op_str |-> op_str, private |-> TRUE,
                      self |-> x, y |-> y], r)

\* CryptoPrimitiveProvider.generate_primitives called directly
Generate ==
    /\ generated < MaxGenerated
    /\ \E op_str \in {BeaverTag("mul"), "unregistered"},
          p_kwargs \in {NoneVal, StoreKwargs},
          prims \in GeneratorOutputs(generated + 1) :
       \* one call is enough for a tag that is not registered, lists are
       \* enough where nothing is transferred
       /\ op_str = "unregistered" =>
              (p_kwargs = NoneVal /\ Len(prims.items) = nr_parties)
       /\ p_kwargs = NoneVal =>
              (prims.is_list /\ Len(prims.items) <= nr_parties)
       /\ \E g \in {generate_primitives(op_str, Sessions, prims, p_kwargs, ProviderState)} :
          /\ call' = [op |-> "generate_primitives", op_str |-> op_str,
                      p_kwargs |-> p_kwargs, primitives |-> prims]
          /\ result' = IF g.error # NoError THEN Error(g.error)
                       ELSE [kind |-> "primitives", primitives |-> g.primitives]
          /\ SetProvider(g.st)
          /\ UNCHANGED <<nr_parties, x, y, log_file, remote>>

StartLogging ==
    /\ call' = [op |-> "start_logging"]
    /\ result' = NoResult
    /\ SetProvider(start_logging(ProviderState))
    /\ UNCHANGED <<nr_parties, x, y, log_file, remote>>

StopLogging ==
    \E generate_file \in BOOLEAN :
    \E r \in {stop_logging(generate_file, ProviderState, log_file)} :
       /\ call' = [op |-> "stop_logging", generate_file |-> generate_file]
       /\ result' = [kind |-> "json", log_json |-> r.log_json]
       /\ SetProvider(r.st)
       /\ log_file' = r.file
       /\ UNCHANGED <<nr_parties, x, y, remote>>

NextStore == StoreMul \/ MulParties \/ Generate \/ StartLogging \/ StopLogging

SpecStore == InitStore /\ [][NextStore]_vars

\* ------------------------------------------------- distribution and fetch
MaxReconstructs == 2

\* ShareTensor.send(party): the party now holds the share; the orchestrator
\* keeps a pointer to it
send(share, party, at) ==
    [ptr |-> [party |-> party],
     held |-> [at EXCEPT ![party] = [tensor |-> share, requested |-> FALSE]]]

RECURSIVE distribute_zip(_, _, _, _, _, _)
\* the loop of distribute_shares over zip(shares, parties), from position k on
distribute_zip(shares, parties, k, share_ptrs, local, at) ==
    IF k > Len(shares) \/ k > Len(parties)
    THEN [share_ptrs |-> share_ptrs, held |-> at]
    ELSE LET s == send(shares[k], parties[k], at)
         IN distribute_zip(shares, parties, k + 1,
                           Append(share_ptrs, s.ptr @@ [local |-> local]),
                           local, s.held)

\* a plausible slip: each pointer is put at the front of the list
distribute_shares_prepend(shares, parties, local, at) ==
    LET d == distribute_zip(shares, parties, 1, <<>>, local, at)
    IN [d EXCEPT !.share_ptrs =
            [k \in 1..Len(@) |-> d.share_ptrs[Len(d.share_ptrs) + 1 - k]]]

\* MPCTensor.distribute_shares; local tells whether the parties live in the
\* orchestrator's process (islocal)
distribute_shares(shares, parties, local, at) ==
    distribute_zip(shares, parties, 1, <<>>, local, at)

\* share_ptr.request(block=True): the party is asked to release the share
request(party, at) == [at EXCEPT ![party].requested = TRUE]
\* share_ptr.get_copy(): the party keeps the share
get_copy(party, at) == [res |-> at[party].tensor, held |-> at]
\* share_ptr.get(): the share moves to the caller
get(party, at) ==
    [res |-> at[party].tensor, held |-> [at EXCEPT ![party].tensor = NoShare]]

\* a plausible slip: the share is fetched with get()
_request_and_get_move(share_ptr, at) ==
    IF ~share_ptr.local
    THEN get(share_ptr.party, request(share_ptr.party, at))
    ELSE get(share_ptr.party, at)

\* reconstruct's helper _request_and_get
_request_and_get(share_ptr, at) ==
    IF ~share_ptr.local
    THEN get_copy(share_ptr.party, request(share_ptr.party, at))
    ELSE get_copy(share_ptr.party, at)

\* args = [[share] for share in self.share_ptrs]
reconstruct_args(self) == [k \in 1..Len(self.share_ptrs) |-> <<self.share_ptrs[k]>>]

\* parallel_execution: one task per argument list, run concurrently; the
\* results are collected in the order the tasks were submitted
submit(args, decode_flag, get_shares) ==
    [active |-> TRUE, decode |-> decode_flag, get_shares |-> get_shares,
     args |-> args, pending |-> 1..Len(args), done |-> <<>>,
     got |-> [k \in 1..Len(args) |-> NoShare]]
collect(f) == [k \in 1..Len(f.args) |-> f.got[k]]

\* the rest of reconstruct, once the local copies of the shares are there
reconstruct_finish(local_shares, decode_flag, get_shares) ==
    IF \E k \in 1..Len(local_shares) : local_shares[k] = NoShare
    THEN Error("KeyError: object not found")
    ELSE IF get_shares THEN [kind |-> "shares", shares |-> local_shares]
    ELSE LET plaintext == TSum(local_shares, Len(local_shares))
         IN [kind |-> "plain",
             value |-> IF decode_flag
                       THEN [k \in 1..Len(plaintext) |-> decode(plaintext[k])]
                       ELSE plaintext]

FetchSecrets == {-3, 4}
FetchRandoms == {<<1>>, <<RingSize - 2>>}

InitFetch ==
    /\ nr_parties \in PartyCounts
    /\ call = Idle
    /\ result = NoResult
    /\ x = NoTensor
    /\ y = NoTensor
    /\ InitProvider
    /\ InitRemote

\* MPCTensor(secret=..., session=...): the secret is split and the shares are
\* sent to the parties in the order of the session's party list
Construct ==
    /\ x = NoTensor
    /\ \E q \in FetchSecrets, rs \in [1..(nr_parties - 1) -> FetchRandoms],
          local \in BOOLEAN :
       \E shares \in {generate_shares(<<encode(q)>>, nr_parties, rs)} :
       \E d \in {distribute_shares(shares, Sessions, local, held)} :
          /\ x' = MPCTensor(d.share_ptrs, Shape(<<1>>), "s1", <<>>)
          /\ held' = d.held
          /\ call' = [op |-> "distribute_shares", secret |-> q, shares |-> shares]
          /\ result' = [kind |-> "pointers", share_ptrs |-> d.share_ptrs]
    /\ UNCHANGED <<nr_parties, y, provider, log_file, fetch, history>>

\* x.reconstruct(decode=...) or x.get_shares() starts: the fetches are
\* submitted
ReconstructStart ==
    /\ x.kind = "mpc"
    /\ ~fetch.active
    /\ Len(history) < MaxReconstructs
    /\ \E decode_flag \in BOOLEAN, get_shares \in BOOLEAN :
          /\ get_shares => decode_flag
          /\ fetch' = submit(reconstruct_args(x), decode_flag, get_shares)
    /\ call' = [op |-> "reconstruct_start"]
    /\ result' = NoResult
    /\ UNCHANGED <<nr_parties, x, y, provider, log_file, held, history>>

\* one of the concurrent fetches completes
FetchComplete ==
    /\ fetch.active
    /\ \E k \in fetch.pending :
       \E r \in {_request_and_get(fetch.args[k][1], held)} :
          /\ fetch' = [fetch EXCEPT !.pending = @ \ {k}, !.done = Append(@, k),
                                    !.got[k] = r.res]
          /\ held' = r.held
    /\ UNCHANGED <<nr_parties, call, result, x, y, provider, log_file, history>>

\* all fetches are back: reconstruct returns
ReconstructReturn ==
    /\ fetch.active
    /\ fetch.pending = {}
    /\ \E r \in {reconstruct_finish(collect(fetch), fetch.decode, fetch.get_shares)} :
          /\ result' = r
          /\ history' = Append(history, [decode |-> fetch.decode,
                                         get_shares |-> fetch.get_shares,
                                         returned |-> r])
    /\ call' = [op |-> "reconstruct", decode |-> fetch.decode,
                get_shares |-> fetch.get_shares, order |-> fetch.done]
    /\ fetch' = NoFetch
    /\ UNCHANGED <<nr_parties, x, y, provider, log_file, held>>

NextFetch == Construct \/ ReconstructStart \/ FetchComplete \/ ReconstructReturn

SpecFetch == InitFetch /\ [][NextFetch]_vars

\* ------------------------------------------------- pow, one iteration at a time
MaxExponent == 3

\* a plausible slip: the base is squared before the odd multiply uses it
pow_iteration_squarefirst(res, base, power, n, t, st) ==
    Only({
        IF m2.result.kind = "error"
        THEN [failed |-> TRUE, result |-> m2.result, base |-> base,
              power |-> power, st |-> m2.st]
        ELSE Only({
            IF m1.result.kind = "error"
            THEN [failed |-> TRUE, result |-> m1.result, base |-> base,
                  power |-> power, st |-> m1.st]
            ELSE [failed |-> FALSE, result |-> m1.result, base |-> m2.result,
                  power |-> power \div 2, st |-> m1.st] :
            m1 \in {IF power % 2 = 1 THEN star(res, m2.result, n, t, m2.st)
                    ELSE [result |-> res, st |-> m2.st]}}) :
        m2 \in {star(base, base, n, t, st)}})

\* the body of the while loop of MPCTensor.pow: the odd multiply, the
\* halving of power, the squaring of base
pow_iteration(res, base, power, n, t, st) ==
    Only({
        IF m1.result.kind = "error"
        THEN [failed |-> TRUE, result |-> m1.result, base |-> base,
              power |-> power, st |-> m1.st]
        ELSE Only({
            IF m2.result.kind = "error"
            THEN [failed |-> TRUE, result |-> m2.result, base |-> base,
                  power |-> power, st |-> m2.st]
            ELSE [failed |-> FALSE, result |-> m1.result, base |-> m2.result,
                  power |-> power \div 2, st |-> m2.st] :
            m2 \in {star(base, base, n, t, m1.st)}}) :
        m1 \in {IF power % 2 = 1 THEN star(res, base, n, t, st)
                ELSE [result |-> res, st |-> st]}})

PowTriple ==
    TripleDraw(3, RingSize - 3, [i \in 1..(nr_parties - 1) |-> <<RingSize - 2>>])

InitPow ==
    /\ nr_parties \in PartyCounts
    /\ call = Idle
    /\ result = NoResult
    /\ \E xs \in [1..nr_parties -> XPool] :
          x = MPCTensor([i \in 1..nr_parties |-> <<xs[i]>>], Shape(<<1>>), "s1", <<>>)
    /\ y = NoTensor
    /\ InitProvider
    /\ InitRemote

\* x.pow(power) is entered: the negative-power check, base = self, result = 1
PowEnter ==
    /\ call.op = "idle"
    /\ \E power \in (-1)..MaxExponent :
          IF power < 0
          THEN /\ call' = [op |-> "pow", power |-> power, self |-> x,
                           triple |-> PowTriple]
               /\ result' = Error("RuntimeError: negative power")
          ELSE /\ call' = [op |-> "pow_loop", p |-> power, power |-> power,
                           base |-> x, res |-> PublicInt(1), iterations |-> 0]
               /\ result' = NoResult
    /\ UNCHANGED <<nr_parties, x, y, provider, log_file, remote>>

\* one pass through the body of the while loop
PowIterate ==
    /\ call.op = "pow_loop"
    /\ call.power > 0
    /\ \E s \in {pow_iteration(call.res, call.base, call.power, nr_parties,
                               PowTriple, ProviderState)} :
          /\ IF s.failed
             THEN /\ call' = [op |-> "pow", power |-> call.p, self |-> x,
                              triple |-> PowTriple]
                  /\ result' = s.result
             ELSE /\ call' = [call EXCEPT !.power = s.power, !.base = s.base,
                                          !.res = s.result, !.iterations = @ + 1]
                  /\ result' = NoResult
          /\ SetProvider(s.st)
    /\ UNCHANGED <<nr_parties, x, y, log_file, remote>>

\* the loop condition fails: return result
PowReturn ==
    /\ call.op = "pow_loop"
    /\ ~(call.power > 0)
    /\ call' = [op |-> "pow", power |-> call.p, self |-> x, triple |-> PowTriple]
    /\ result' = call.res
    /\ UNCHANGED <<nr_parties, x, y, provider, log_file, remote>>

NextPow == PowEnter \/ PowIterate \/ PowReturn

SpecPow == InitPow /\ [][NextPow]_vars
\* the interpreter keeps executing the loop once pow was entered
SpecPowLive == SpecPow /\ WF_vars(PowIterate) /\ WF_vars(PowReturn)

\* ------------------------------------------------- comparisons
\* MPCTensor.__check_or_convert for an operand that is a distributed tensor
check_or_convert(value, session) == value

\* protocol.le of the session's comparison protocol, taken to be correct: it
\* tells whether the value held by a is at most the value held by b
protocol_le(a, b) ==
    IF a.kind = "error" THEN a
    ELSE IF b.kind = "error" THEN b
    ELSE [kind |-> "bool",
          value |-> Signed(TSum(a.share_ptrs, Len(a.share_ptrs))[1])
                       <= Signed(TSum(b.share_ptrs, Len(b.share_ptrs))[1])]

\* fp_encoder.decode(1): the smallest representable step, as a public number
one == Public(decode(1), TRUE, NoneVal)

\* MPCTensor.lt
lt(self, other, n, st) ==
    LET o == check_or_convert(other, self.session)
    IN protocol_le(apply_op(self, one, "add", n, NoPrimitives, st).result, o)

\* MPCTensor.gt
gt(self, other, n, st) ==
    LET o == check_or_convert(other, self.session)
        r == apply_op(o, one, "add", n, NoPrimitives, st).result
    IN protocol_le(r, self)

InitCompare ==
    /\ nr_parties \in PartyCounts
    /\ call = Idle
    /\ result = NoResult
    /\ \E xs \in [1..nr_parties -> XPool], ys \in [1..nr_parties -> YPool] :
        /\ x = MPCTensor([i \in 1..nr_parties |-> <<xs[i]>>], Shape(<<1>>), "s1", <<>>)
        /\ y = MPCTensor([i \in 1..nr_parties |-> <<ys[i]>>], Shape(<<1>>), "s1", <<>>)
    /\ InitProvider
    /\ InitRemote

\* x < y and y < x
Lt ==
    /\ call.op = "idle"
    /\ \E ab \in {<<x, y>>, <<y, x>>} :
          /\ call' = [op |-> "lt", self |-> ab[1], y |-> ab[2]]
          /\ result' = lt(ab[1], ab[2], nr_parties, ProviderState)
    /\ UNCHANGED <<nr_parties, x, y, provider, log_file, remote>>

\* x > y and y > x
Gt ==
    /\ call.op = "idle"
    /\ \E ab \in {<<x, y>>, <<y, x>>} :
          /\ call' = [op |-> "gt", self |-> ab[1], y |-> ab[2]]
          /\ result' = gt(ab[1], ab[2], nr_parties, ProviderState)
    /\ UNCHANGED <<nr_parties, x, y, provider, log_file, remote>>

NextCompare == Lt \/ Gt

SpecCompare == InitCompare /\ [][NextCompare]_vars

\* ------------------------------------------------- operands without a shape
UnsetShapes == {Shape(<<1>>), NoneVal}

InitUnset ==
    /\ nr_parties \in PartyCounts
    /\ call = Idle
    /\ result = NoResult
    /\ \E xs \in [1..nr_parties -> XPool], xshape \in UnsetShapes,
          yshape \in UnsetShapes :
        /\ x = MPCTensor([i \in 1..nr_parties |-> <<xs[i]>>], xshape, "s1", <<>>)
        /\ y = MPCTensor([i \in 1..nr_parties |-> <<3>>], yshape, "s1", <<>>)
    /\ InitProvider
    /\ InitRemote

\* x.mul(y), x.matmul(y), x.conv2d(y) where a shape may be unset
UnsetMul ==
    /\ call.op = "idle"
    /\ \E op_str \in MulOps :
       \E prims \in {Batch(PowTriple, nr_parties, generated + 1)} :
       \E r \in {apply_op(x, y, op_str, nr_parties, prims, ProviderState)} :
          /\ x' = [x EXCEPT !.share_ptrs = r.self_ptrs]
          /\ Returns([op |-> "apply_op", op_str |-> op_str, private |-> TRUE,
                      self |-> x, y |-> y, triple |-> PowTriple], r)

NextUnset == UnsetMul

SpecUnset == InitUnset /\ [][NextUnset]_vars

\* ------------------------------------------------- a secret held by a party
SeedPool == {1, 2, RingSize - 3}
Outsider == nr_parties + 1

\* ShareTensor + secret at the party holding both: the secret is encoded and
\* added element by element
add_secret(share, secret) ==
    [k \in 1..Len(share) |-> Wrap(share[k] + encode(secret[k]))]

\* MPCTensor.sanity_checks for a secret that is a pointer
sanity_checks(shape_given) ==
    IF ~shape_given
    THEN [error |-> "ValueError: Shape must be specified if secret is at another party"]
    ELSE [error |-> NoError, is_remote_secret |-> TRUE]

\* a plausible slip: every party's share is incremented
init_remote_secret_all(secret, owner, shape, shape_given, n, gens) ==
    IF sanity_checks(shape_given).error # NoError
    THEN Error(sanity_checks(shape_given).error)
    ELSE LET share_ptrs == generate_przs(shape, n, gens)
         IN IF owner \notin 1..n
            THEN Error("TypeError: 'NoneType' object is not subscriptable")
            ELSE MPCTensor([i \in 1..n |-> add_secret(share_ptrs[i], secret)],
                           Shape(<<shape>>), "s1", <<>>)

\* MPCTensor.__init__ for a secret held by the party owner: PRZS shares, then
\* the first share whose client is the secret's client gets the secret added;
\* without such a share the code runs on to shares[0] with shares = None
init_remote_secret(secret, owner, shape, shape_given, n, gens) ==
    IF sanity_checks(shape_given).error # NoError
    THEN Error(sanity_checks(shape_given).error)
    ELSE LET share_ptrs == generate_przs(shape, n, gens)
             matching == {i \in 1..n : i = owner}
         IN IF matching = {}
            THEN Error("TypeError: 'NoneType' object is not subscriptable")
            ELSE LET i == CHOOSE m \in matching : \A o \in matching : m <= o
                 IN MPCTensor([share_ptrs EXCEPT ![i] = add_secret(@, secret)],
                              Shape(<<shape>>), "s1", <<>>)

\* MPCTensor(secret=<pointer>, shape=..., session=...)
ConstructRemote ==
    /\ call.op = "idle"
    /\ \E shape \in Shapes, shape_given \in BOOLEAN, owner \in 1..Outsider,
          seeds \in [1..nr_parties -> SeedPool] :
       \E secret \in [1..shape -> FetchSecrets] :
          /\ call' = [op |-> "init_remote", secret |-> secret, owner |-> owner,
                      shape |-> shape, shape_given |-> shape_given, seeds |-> seeds]
          /\ result' = init_remote_secret(secret, owner, shape, shape_given,
                           nr_parties, przs_generators(seeds, nr_parties))
    /\ UNCHANGED <<nr_parties, x, y, provider, log_file, remote>>

NextRemote == ConstructRemote

SpecRemote == InitSharing /\ [][NextRemote]_vars

\* C1: the nr_parties shares returned by generate_shares sum, in the ring, to
\* encode(secret), whatever random ring elements were drawn.
C1_SharesSumToSecret ==
    call.op = "generate_shares" =>
        /\ Len(result.shares) = nr_parties
        /\ TSum(result.shares, nr_parties) = <<encode(call.secret)>>

C1_Witness ==
    /\ call.op = "generate_shares"
    /\ nr_parties = 3
    /\ call.secret = -3
    /\ call.random_shares[1] = <<RingSize - 1>>
    /\ call.random_shares[2] = <<1>>
    /\ Wrap(result.shares[1][1] + result.shares[2][1] + result.shares[3][1]) = encode(-3)

\* C2: the shares of a PRZS batch sum to zero in the ring, for every party
\* count and every shape.
C2_PrzsSumsToZero ==
    call.op = "generate_przs" =>
        /\ Len(result.shares) = nr_parties
        /\ \A i \in 1..nr_parties : Len(result.shares[i]) = call.shape
        /\ TSum(result.shares, nr_parties) = TZero(call.shape)

C2_Witness ==
    /\ call.op = "generate_przs"
    /\ nr_parties = 3
    /\ call.shape = 2
    /\ \A i \in 1..3 : result.shares[i] # TZero(2)

\* ------------------------------------------------- claims on the arithmetic
\* the ring sum of a distributed tensor's shares, rank 0 first
PlainSum(t) == TSum(t.share_ptrs, Len(t.share_ptrs))
Succeeded == result.kind = "mpc"
PrivateCall(ops) ==
    call.op = "apply_op" /\ call.private /\ call.op_str \in ops /\ Succeeded
PublicCall(ops) ==
    call.op = "apply_op" /\ ~call.private /\ call.op_str \in ops /\ Succeeded

\* C3: a.add(b) and a.sub(b) on two distributed tensors of one session combine
\* the shares rank by rank, and the result reconstructs to the ring sum
\* (difference) of the operands' reconstructions.
C3_PrivateAddSub ==
    PrivateCall({"add", "sub"}) =>
        /\ call.y.session = call.self.session
        /\ Len(result.share_ptrs) = nr_parties
        /\ \A i \in 1..nr_parties :
              result.share_ptrs[i] =
                 IF call.op_str = "add"
                 THEN TAdd(call.self.share_ptrs[i], call.y.share_ptrs[i])
                 ELSE TSub(call.self.share_ptrs[i], call.y.share_ptrs[i])
        /\ PlainSum(result) =
              IF call.op_str = "add"
              THEN <<Wrap(PlainSum(call.self)[1] + PlainSum(call.y)[1])>>
              ELSE <<Wrap(PlainSum(call.self)[1] - PlainSum(call.y)[1])>>

C3_Witness ==
    /\ PrivateCall({"sub"})
    /\ nr_parties = 3
    /\ PlainSum(call.self)[1] < PlainSum(call.y)[1]
    /\ PlainSum(result)[1] = RingSize + PlainSum(call.self)[1] - PlainSum(call.y)[1]

SpdzRescales == Cardinality({k \in 1..Len(spdz_log) : spdz_log[k].rescaled})
OrchestratorRescales ==
    Cardinality({k \in 1..Len(result.divided_by) :
                    result.divided_by[k] = PublicInt(Scale).value})

\* C6: every multiplicative operation (mul, matmul, conv2d, rmatmul) removes
\* exactly one factor base^precision: inside the SPDZ step when the operand is
\* private and the session has 2 parties, by one orchestrator division
\* otherwise.
C6_RescaledExactlyOnce ==
    (call.op \in {"apply_op", "rmatmul"} /\ call.op_str \in MulOps /\ Succeeded) =>
        /\ SpdzRescales + OrchestratorRescales = 1
        /\ Len(result.divided_by) = OrchestratorRescales
        /\ SpdzRescales = 1 <=> (call.private /\ nr_parties = 2)

C6_Witness ==
    /\ call.op = "apply_op" /\ call.op_str = "conv2d" /\ call.private /\ Succeeded
    /\ nr_parties = 3
    /\ result.divided_by = <<PublicInt(Scale).value>>
    /\ SpdzRescales = 0

\* C7: adding or subtracting a public value changes only the rank-0 share;
\* the other shares of the result are the operand's, and the operand's own
\* share list is unchanged.
C7_PublicAddSubRankZeroOnly ==
    PublicCall({"add", "sub"}) =>
        /\ x.share_ptrs = call.self.share_ptrs
        /\ Len(result.share_ptrs) = nr_parties
        /\ \A i \in 2..nr_parties : result.share_ptrs[i] = call.self.share_ptrs[i]
        /\ result.share_ptrs[1] =
              IF call.op_str = "add"
              THEN <<Wrap(call.self.share_ptrs[1][1] + encode(call.y.value))>>
              ELSE <<Wrap(call.self.share_ptrs[1][1] - encode(call.y.value))>>

C7_Witness ==
    /\ PublicCall({"sub"})
    /\ nr_parties = 3
    /\ call.y.value = -3
    /\ result.share_ptrs[1] # call.self.share_ptrs[1]
    /\ x = call.self

\* ------------------------------------------------- claims on the stores
\* what the parties' stores hold for party i and tag t
Queue(store, i, t) == store[i][t]
RoundRan == Len(spdz_log') = Len(spdz_log) + 1
LastRound == spdz_log'[Len(spdz_log')]

\* every successful round took one primitive of one batch from every party,
\* and no party ever took the same batch in two rounds
BatchesConsumedOnce ==
    /\ \A k \in 1..Len(spdz_log) :
          spdz_log[k].ok =>
             \A i \in 1..nr_parties :
                /\ spdz_log[k].ids[i] # 0
                /\ spdz_log[k].ids[i] = spdz_log[k].ids[1]
    /\ \A k, l \in 1..Len(spdz_log) :
          (k < l /\ spdz_log[k].ok /\ spdz_log[l].ok) =>
             \A i \in 1..nr_parties : spdz_log[k].ids[i] # spdz_log[l].ids[i]
    /\ (call.op \in {"apply_op", "mul_parties"} /\ spdz_log # <<>>
          /\ ~spdz_log[Len(spdz_log)].ok) =>
             result = Error("EmptyPrimitiveStore")

\* a round that succeeds shortens each party's queue for its tag by exactly
\* one (after the batch the dealer delivered for it, if any); a round that
\* finds the store empty takes nothing
OneBatchPerRound ==
    RoundRan =>
       \A i \in 1..nr_parties, t \in _func_providers :
          Len(Queue(crypto_store', i, t)) =
             IF LastRound.ok /\ t = BeaverTag(LastRound.op)
             THEN Len(Queue(crypto_store, i, t)) + (generated' - generated) - 1
             ELSE Len(Queue(crypto_store, i, t))

\* C5: in any sequence of private mul / matmul / conv2d operations each
\* operation consumes exactly one primitive batch, no batch is consumed by two
\* operations, and a multiplication that finds the store empty for its tag
\* fails without retrying or reusing a batch.
C5_OneFreshBatchPerMul == [][OneBatchPerRound]_vars /\ []BatchesConsumedOnce

C5_Witness ==
    /\ Len(spdz_log) = 3
    /\ spdz_log[1].ok /\ spdz_log[2].ok /\ ~spdz_log[3].ok
    /\ spdz_log[1].op = "mul" /\ spdz_log[2].op = "mul" /\ spdz_log[3].op = "mul"
    /\ spdz_log[1].ids # spdz_log[2].ids
    /\ result = Error("EmptyPrimitiveStore")
    /\ \A i \in 1..nr_parties : crypto_store[i][BeaverTag("mul")] = <<>>

\* ------------------------------------------------- claims on reconstruction
\* no step after the distribution changes the share a party holds
SharesKept ==
    x.kind = "mpc" =>
       \A i \in 1..nr_parties : held'[i].tensor = held[i].tensor
\* reconstructions asked for in the same way returned the same thing
RepeatsAgree ==
    \A k, l \in 1..Len(history) :
       /\ history[k].returned.kind # "error"
       /\ (history[k].decode = history[l].decode
              /\ history[k].get_shares = history[l].get_shares) =>
             history[k].returned = history[l].returned

\* C8: reconstruct and get_shares only read the parties' shares: whatever the
\* number of calls, every party still holds the same share, and repeated
\* reconstructions of the tensor return the same value.
C8_ReconstructOnlyReads == [][SharesKept]_vars /\ []RepeatsAgree

C8_Witness ==
    /\ Len(history) = 2
    /\ nr_parties = 3
    /\ history[1].decode /\ ~history[1].get_shares
    /\ history[2].decode /\ ~history[2].get_shares
    /\ call.op = "reconstruct" /\ call.order = <<2, 3, 1>>
    /\ history[1].returned = history[2].returned
    /\ history[2].returned = [kind |-> "plain", value |-> <<-4>>]
    /\ \A i \in 1..3 : held[i].requested /\ held[i].tensor # NoShare

\* C9: whatever the order in which the concurrent per-party fetches complete,
\* get_shares returns the shares in party-rank order: element i is the share
\* held by the party of rank i; the pointers made by distribute_shares are in
\* that order too.
C9_GatheredInRankOrder ==
    /\ x.kind = "mpc" =>
          /\ Len(x.share_ptrs) = nr_parties
          /\ \A i \in 1..nr_parties : x.share_ptrs[i].party = i
    /\ (call.op = "reconstruct" /\ call.get_shares) =>
          /\ result.kind = "shares"
          /\ Len(result.shares) = nr_parties
          /\ \A i \in 1..nr_parties : result.shares[i] = held[i].tensor

C9_Witness ==
    /\ call.op = "reconstruct" /\ call.get_shares
    /\ nr_parties = 3
    /\ call.order = <<3, 1, 2>>
    /\ held[1].tensor # held[2].tensor
    /\ held[2].tensor # held[3].tensor
    /\ held[1].tensor # held[3].tensor
    /\ result.shares = <<held[1].tensor, held[2].tensor, held[3].tensor>>

\* C10: pow(x, 0) yields a distributed tensor whose shares sum to encode(1).
C10_PowZeroIsSharedOne ==
    (call.op = "pow" /\ call.power = 0) =>
        /\ result.kind = "mpc"
        /\ PlainSum(result) = <<encode(2 * Scale)>>

\* ------------------------------------------------- claims on pow
RECURSIVE RingPow(_, _)
\* v^k in the ring
RingPow(v, k) == IF k = 0 THEN 1 ELSE Wrap(v * RingPow(v, k - 1))

\* t holds exactly the k-th power of x's value: its ring sum is the k-th power
\* of x's ring sum, times one scale factor for each recorded division that is
\* still to be applied beyond the k - 1 that k factors call for
IsPowerOfX(t, k) ==
    IF t.kind = "public" THEN k = 0 /\ t.value = PublicInt(1).value
    ELSE /\ t.kind = "mpc"
         /\ k >= 1
         /\ Len(t.divided_by) + 1 >= k
         /\ \A d \in 1..Len(t.divided_by) : t.divided_by[d] = PublicInt(Scale).value
         /\ PlainSum(t) = <<Wrap(RingPow(PlainSum(x)[1], k)
                                  * RingPow(Scale, Len(t.divided_by) + 1 - k))>>

\* multiplication is exact where no share is truncated locally
ExactMul == nr_parties > 2

\* result * base^power = x^p at the head of every iteration
PowLoopInvariant ==
    (call.op = "pow_loop" /\ ExactMul) =>
        LET b == Pow(2, call.iterations)
            e == call.p - call.power * b
        IN /\ e >= 0
           /\ IsPowerOfX(call.res, e)
           /\ IsPowerOfX(call.base, b)

PowResult ==
    (call.op = "pow" /\ call.power >= 1) =>
        /\ result.kind = "mpc"
        /\ ExactMul => IsPowerOfX(result, call.power)

\* C11: for every exponent p >= 1 the square-and-multiply loop of pow(x, p)
\* terminates, keeps result * base^power = x^p at every iteration, and (given
\* exact multiplication) returns a tensor that reconstructs to x^p.
C11_PowSquareAndMultiply ==
    /\ []PowLoopInvariant
    /\ []PowResult
    /\ [](call.op = "pow_loop" => <>(call.op = "pow"))

C11_Witness ==
    /\ call.op = "pow" /\ call.power = 3
    /\ nr_parties = 3
    /\ PlainSum(x)[1] \notin {0, 1}
    /\ result.kind = "mpc"
    /\ PlainSum(result) = <<Wrap(RingPow(PlainSum(x)[1], 3) * Scale)>>
    /\ Len(result.divided_by) = 3
    /\ Len(spdz_log) = 3

\* ------------------------------------------------- claims on comparisons
\* the fixed-point value a distributed tensor holds, in encoder units
HeldValue(t) == Signed(PlainSum(t)[1])

\* C12: lt(a, b) is le(a + u, b) and gt(a, b) is le(b + u, a) for one encoded
\* unit u; given a correct le, for all values a and b representable in the
\* ring lt(a, b) is true exactly when a < b and gt(a, b) exactly when a > b.
C12_LtGtExact ==
    /\ call.op = "lt" =>
          /\ result.kind = "bool"
          /\ result.value = (HeldValue(call.self) < HeldValue(call.y))
    /\ call.op = "gt" =>
          /\ result.kind = "bool"
          /\ result.value = (HeldValue(call.self) > HeldValue(call.y))

\* ------------------------------------------------- claims on the provider
\* the step is a generate_primitives call for a registered tag
GenerateCalled ==
    call'.op = "generate_primitives" /\ call'.op_str \in _func_providers
CountMismatch ==
    /\ call'.p_kwargs # NoneVal
    /\ call'.primitives.is_list
    /\ Len(call'.primitives.items) # nr_parties
MismatchFailsUntouched ==
    (GenerateCalled /\ CountMismatch) =>
        /\ result' = Error("ValueError: count mismatch")
        /\ crypto_store' = crypto_store

\* C13: generate_primitives with populate kwargs fails with a count-mismatch
\* error whenever the number of generated primitives differs from the number
\* of sessions, and then no party's store has been populated.
C13_CountMismatchBeforeStores == [][MismatchFailsUntouched]_vars

C13_Witness ==
    /\ call.op = "generate_primitives" /\ call.op_str = BeaverTag("mul")
    /\ call.p_kwargs = StoreKwargs
    /\ Len(call.primitives.items) = nr_parties + 1
    /\ result = Error("ValueError: count mismatch")
    /\ generated = 2
    /\ \A i \in 1..nr_parties : Len(crypto_store[i][BeaverTag("mul")]) = 1

SkipReturnsUntouched ==
    (GenerateCalled /\ call'.p_kwargs = NoneVal) =>
        /\ result' = [kind |-> "primitives", primitives |-> call'.primitives]
        /\ crypto_store' = crypto_store

\* C14: generate_primitives called with the skip sentinel as populate kwargs
\* returns the primitives of the registered generator and leaves every party's
\* store unchanged, also when their number differs from that of the sessions.
C14_SkipSentinelNoTransfer == [][SkipReturnsUntouched]_vars

C14_Witness ==
    /\ call.op = "generate_primitives" /\ call.op_str = BeaverTag("mul")
    /\ call.p_kwargs = NoneVal
    /\ Len(call.primitives.items) = nr_parties - 1
    /\ result = [kind |-> "primitives", primitives |-> call.primitives]
    /\ generated = 2
    /\ \A i \in 1..nr_parties : Len(crypto_store[i][BeaverTag("mul")]) = 1

\* logging starts on an empty log
StartsEmpty ==
    (call'.op = "start_logging" /\ ~_LOGGING) =>
        /\ _LOGGING'
        /\ _ops_list' = EmptyLog
\* a successful call made while logging adds its populate kwargs at the end of
\* its tag's entries, and nothing else
SuccessAppends ==
    (GenerateCalled /\ _LOGGING /\ result'.kind # "error") =>
        /\ _LOGGING'
        /\ _ops_list' = [_ops_list EXCEPT ![call'.op_str] = Append(@, call'.p_kwargs)]
\* stop_logging returns the entries in the order they were added and clears
StopReturnsAndClears ==
    call'.op = "stop_logging" =>
        /\ \A t \in _func_providers :
              IF _ops_list[t] = <<>> THEN t \notin DOMAIN result'.log_json
              ELSE /\ t \in DOMAIN result'.log_json
                   /\ Len(result'.log_json[t]) = Len(_ops_list[t])
                   /\ \A k \in 1..Len(_ops_list[t]) :
                         result'.log_json[t][k] = json_value(_ops_list[t][k])
        /\ _ops_list' = EmptyLog
        /\ ~_LOGGING'

\* C15: after start_logging, k successful generate_primitives calls for one
\* tag and then stop_logging, the log returned holds exactly k entries under
\* that tag, in call order, and the in-memory log is empty afterwards whether
\* or not a file was requested.
C15_LogHoldsTheCalls ==
    /\ [][StartsEmpty]_vars
    /\ [][SuccessAppends]_vars
    /\ [][StopReturnsAndClears]_vars

C15_Witness ==
    /\ call.op = "stop_logging" /\ ~call.generate_file
    /\ generated = 2
    /\ DOMAIN result.log_json = {BeaverTag("mul")}
    /\ result.log_json[BeaverTag("mul")] = <<JsonNull, json_value(StoreKwargs)>>
    /\ _ops_list = EmptyLog
    /\ log_file = NoneVal
    /\ \A i \in 1..nr_parties : Len(crypto_store[i][BeaverTag("mul")]) = 1

\* C18: whatever sequence of start_logging, stop_logging and generate_primitives
\* calls (successful or failing) was made, the in-memory log is empty whenever
\* the logging flag is off.
C18_LogEmptyWhenOff == ~_LOGGING => _ops_list = EmptyLog

C18_Witness ==
    /\ ~_LOGGING
    /\ call.op = "generate_primitives" /\ call.op_str = BeaverTag("mul")
    /\ result = Error("ValueError: count mismatch")
    /\ generated = 2
    /\ log_file # NoneVal
    /\ _ops_list = EmptyLog

\* ------------------------------------------------- claims on unset shapes
\* C19: a private mul / matmul / conv2d that fails because an operand's shape
\* is unset fails before the SPDZ multiplication is invoked: no primitive
\* batch was requested or consumed and no party's state has changed.
C19_UnsetShapeFailsBeforeSpdz ==
    (call.op = "apply_op" /\ call.private /\ call.op_str \in MulOps
        /\ (call.self.shape = NoneVal \/ call.y.shape = NoneVal)) =>
        /\ result = Error("ValueError: Shapes should not be None")
        /\ generated = 0
        /\ spdz_log = <<>>
        /\ crypto_store = EmptyStore

\* ------------------------------------------------- claims on construction
\* the PRZS batch the constructor generated for the call
PrzsOfCall ==
    generate_przs(call.shape, nr_parties, przs_generators(call.seeds, nr_parties))
EncodedSecret == [k \in 1..call.shape |-> encode(call.secret[k])]

\* C16: constructing a distributed tensor from a secret held by a party of the
\* session generates a PRZS batch for the given shape and adds the secret to
\* exactly one share, the owner's; the other shares are the PRZS shares, so
\* the shares sum to the secret.
C16_RemoteSecretOneShare ==
    (call.op = "init_remote" /\ call.shape_given /\ call.owner \in 1..nr_parties) =>
        /\ result.kind = "mpc"
        /\ Len(result.share_ptrs) = nr_parties
        /\ TSum(PrzsOfCall, nr_parties) = TZero(call.shape)
        /\ \A i \in 1..nr_parties :
              result.share_ptrs[i] =
                 IF i = call.owner THEN TAdd(PrzsOfCall[i], EncodedSecret)
                 ELSE PrzsOfCall[i]
        /\ TSum(result.share_ptrs, nr_parties) = EncodedSecret

C16_Witness ==
    /\ call.op = "init_remote" /\ call.shape_given
    /\ nr_parties = 3 /\ call.owner = 2 /\ call.shape = 2
    /\ call.secret = <<-3, 4>>
    /\ result.kind = "mpc"
    /\ result.share_ptrs[2] # PrzsOfCall[2]
    /\ result.share_ptrs[1] = PrzsOfCall[1]
    /\ result.share_ptrs[1] # TZero(2)
    /\ TSum(result.share_ptrs, 3) = <<encode(-3), encode(4)>>

\* the random tensors r_1..r_{n-1} of the call and the encoded secret
DrawnShares == call.random_shares
SharedSecret == <<encode(call.secret)>>
EndsAsStated ==
    /\ Len(DrawnShares) = nr_parties - 1
    /\ Len(result.shares) = nr_parties
    /\ result.shares[1] = DrawnShares[1]
    /\ result.shares[nr_parties] = TSub(SharedSecret, DrawnShares[nr_parties - 1])

\* C17 as stated: generate_shares draws party_count - 1 random ring elements
\* r_1..r_{n-1} and sets share_0 = r_1, each middle-rank share_i = r_i - r_{i+1}
\* and share_{n-1} = encode(secret) - r_{n-1}.
C17_MiddleShareAsStated ==
    call.op = "generate_shares" =>
        /\ EndsAsStated
        /\ \A i \in 1..(nr_parties - 2) :
              result.shares[i + 1] = TSub(DrawnShares[i], DrawnShares[i + 1])

\* C17 amended: generate_shares draws party_count - 1 random ring elements
\* r_1..r_{n-1} and sets share_0 = r_1, each middle-rank share_i =
\* r_{i+1} - r_i and share_{n-1} = encode(secret) - r_{n-1}.
C17_MiddleShareTelescopes ==
    call.op = "generate_shares" =>
        /\ EndsAsStated
        /\ \A i \in 1..(nr_parties - 2) :
              result.shares[i + 1] = TSub(DrawnShares[i + 1], DrawnShares[i])

C17_Witness ==
    /\ call.op = "generate_shares"
    /\ nr_parties = 3
    /\ call.random_shares = <<<<1>>, <<3>>>>
    /\ result.shares[2] = <<2>>
    /\ result.shares[2] # TSub(DrawnShares[1], DrawnShares[2])
    /\ TSum(result.shares, 3) = SharedSecret

====
